---- MODULE Spec2Model ----
(***************************************************************************)
(* Model of hst/spectrify.py: the dispatcher spectrify, the two annotators *)
(* spectrifyCOS and spectrifySTIS, and the two trace estimators            *)
(* __median_trace and __lya_trace.                                         *)
(*                                                                         *)
(* Floating point quantities are fixed point integers in units of 1/FS     *)
(* (pixels for positions, 0.1 Angstrom for wavelengths); NaN and Inf are   *)
(* two reserved values that the arithmetic operators propagate the way     *)
(* IEEE arithmetic does.  The source is Python 2 (map() returns a list and *)
(* "/" on two header integers is floor division).                          *)
(***************************************************************************)
EXTENDS Integers, Sequences, FiniteSets, TLC

VARIABLES tag, tag0, x1d, sameObsOK, rng, err, last, deqlog, ncalls, lya

vars == <<tag, tag0, x1d, sameObsOK, rng, err, last, deqlog, ncalls, lya>>

(* ------------------------------ bounds --------------------------------- *)
MaxPhotons == 3
MaxCalls == 2
MaxSamples == 3

(* ------------------------- number representation ----------------------- *)
FS == 8
NaN == -999999
Inf == 999999

Sub(a, b) == IF a = NaN \/ b = NaN THEN NaN ELSE a - b

Abs(a) == IF a = NaN THEN NaN ELSE IF a < 0 THEN -a ELSE a

Range(s) == {s[k] : k \in DOMAIN s}

RECURSIVE Pow2(_)
Pow2(k) == IF k = 0 THEN 1 ELSE 2 * Pow2(k - 1)

(* s[i] for the indices i of idx, in the order of idx: numpy's s[idx]. *)
Take(s, idx) == [j \in 1..Len(idx) |-> s[idx[j]]]

(* The indices where the mask is true, ascending: numpy's boolean index. *)
RECURSIVE WhereFrom(_, _)
WhereFrom(mask, k) ==
    IF k > Len(mask) THEN <<>>
    ELSE (IF mask[k] THEN <<k>> ELSE <<>>) \o WhereFrom(mask, k + 1)

Where(mask) == WhereFrom(mask, 1)

(* dst[idx] = vals *)
RECURSIVE ScatterFrom(_, _, _, _)
ScatterFrom(dst, idx, vals, j) ==
    IF j > Len(idx) THEN dst
    ELSE ScatterFrom([dst EXCEPT ![idx[j]] = vals[j]], idx, vals, j + 1)

ScatterPrefix(dst, idx, vals) == ScatterFrom(dst, [j \in DOMAIN idx |-> j], vals, 1)

Scatter(dst, idx, vals) == ScatterFrom(dst, idx, vals, 1)

RECURSIVE Insert(_, _)
Insert(sorted, v) ==
    IF sorted = <<>> THEN <<v>>
    ELSE IF v <= Head(sorted) THEN <<v>> \o sorted
    ELSE <<Head(sorted)>> \o Insert(Tail(sorted), v)

RECURSIVE Sorted(_)
Sorted(s) == IF s = <<>> THEN <<>> ELSE Insert(Sorted(Tail(s)), Head(s))

MedianLow(s) ==
    IF s = <<>> THEN NaN ELSE Sorted(s)[(Len(s) + 1) \div 2]

(* np.median: NaN for an empty array, the mean of the two middle values    *)
(* for an even count.                                                      *)
Median(s) ==
    IF s = <<>> THEN NaN
    ELSE LET t == Sorted(s)
             n == Len(t)
         IN  IF n % 2 = 1 THEN t[(n + 1) \div 2]
             ELSE (t[n \div 2] + t[n \div 2 + 1]) \div 2

(* np.argmin over one column: the first NaN if there is one, else the      *)
(* first index holding the minimum.  Indices are 0-based as in the source. *)
ArgMinLast(col) ==
    IF \E j \in DOMAIN col : col[j] = NaN
    THEN (CHOOSE j \in DOMAIN col :
             col[j] = NaN /\ \A i \in 1..(j - 1) : col[i] # NaN) - 1
    ELSE (CHOOSE j \in DOMAIN col :
             /\ \A i \in DOMAIN col : col[j] <= col[i]
             /\ \A i \in (j + 1)..Len(col) : col[i] > col[j]) - 1

ArgMin(col) ==
    IF \E j \in DOMAIN col : col[j] = NaN
    THEN (CHOOSE j \in DOMAIN col :
             col[j] = NaN /\ \A i \in 1..(j - 1) : col[i] # NaN) - 1
    ELSE (CHOOSE j \in DOMAIN col :
             /\ \A i \in DOMAIN col : col[j] <= col[i]
             /\ \A i \in 1..(j - 1) : col[i] > col[j]) - 1

(* --------------------- process-wide random generator ------------------- *)
(* np.random is a deterministic generator with process-wide state.  It is  *)
(* modelled by a full-period congruential generator on RngMod states; one  *)
(* draw of random()*2.0 is the top two bits of the new state, in half      *)
(* pixels, hence a value of [0, 2) pixels.                                 *)
RngMod == 16

RngNext(s) == (5 * s + 7) % RngMod

RngSeed(seed) == seed % RngMod

RandomTimes2(s) == (s \div 4) * (FS \div 2)

(* np.random.random(shape)*2.0 with shape (n,): the n values drawn and the *)
(* generator state afterwards.                                             *)
RECURSIVE RandomArray(_, _)
RandomArray(s, n) ==
    IF n = 0 THEN [vals |-> <<>>, state |-> s]
    ELSE LET s1 == RngNext(s)
             rest == RandomArray(s1, n - 1)
         IN  [vals |-> <<RandomTimes2(s1)>> \o rest.vals, state |-> rest.state]

(* ------------------------- scipy.interpolate.interp1d ------------------ *)
(* np.arange(start, stop, step) on fixed point values. *)
RECURSIVE Arange(_, _, _)
Arange(start, stop, step) ==
    IF start >= stop THEN <<>> ELSE <<start>> \o Arange(start + step, stop, step)

(* interp1d(xpix, vec, bounds_error=False, fill_value=np.nan)(X): linear   *)
(* between the two grid points around X, NaN outside the grid.             *)
InterpLinear(xpix, vec, X) ==
    IF X = NaN \/ X < xpix[1] \/ X > xpix[Len(xpix)] THEN NaN
    ELSE LET hi == IF X <= xpix[1] THEN 2
                   ELSE CHOOSE j \in 2..Len(xpix) : xpix[j - 1] < X /\ X <= xpix[j]
             lo == hi - 1
         IN  vec[lo] + ((vec[hi] - vec[lo]) * (X - xpix[lo])) \div (xpix[hi] - xpix[lo])

(* interp1d(xpix, vec, 'nearest', ...)(X): the value at the nearest grid   *)
(* point (the lower one half way between two), NaN outside the grid.       *)
InterpNearest(xpix, vec, X) ==
    IF X = NaN \/ X < xpix[1] \/ X > xpix[Len(xpix)] THEN NaN
    ELSE LET below == {j \in 1..(Len(xpix) - 1) : xpix[j] + xpix[j + 1] < 2 * X}
         IN  vec[Cardinality(below) + 1]

(* ------------------------------ divvy ---------------------------------- *)
(* mypy.my_numpy.divvy(cnts, bins, keyrow): the points whose key lies in   *)
(* [bins[b], bins[b+1]), in their input order; NaN keys fall in no bin.    *)
InBin(key, lo, hi) == key # NaN /\ lo <= key /\ key < hi

Divvy1(keys, lo, hi) == Where([k \in DOMAIN keys |-> InBin(keys[k], lo, hi)])

(* ----------------------------- __lya_trace ----------------------------- *)
LyaLo == 12145
LyaHi == 12172
TolDen == 10000

(* abs(ytrace - ytrace_old)/ytrace > 1e-4 in IEEE arithmetic. *)
LyaContinue(ytrace, ytrace_old) ==
    IF ytrace = NaN \/ ytrace_old = NaN THEN FALSE
    ELSE IF ytrace_old = Inf THEN ytrace >= 0
    ELSE LET d == Abs(ytrace - ytrace_old)
         IN  IF ytrace > 0 THEN d * TolDen > ytrace
             ELSE IF ytrace = 0 THEN d > 0
             ELSE FALSE

(* Lines 192-197: the selection of the line window and the first median.  *)
(* sel holds the y values of lyacnts; dy is ymax/2.0 halved `halvings`     *)
(* times, kept exact as the pair (ymax, halvings).                         *)
LyaStart(w, y, ymax) ==
    LET sel == Take(y, Divvy1(w, LyaLo * FS, LyaHi * FS))
    IN  [sel |-> sel, ytrace_old |-> Inf, ytrace |-> Median(sel),
         ymax |-> ymax, halvings |-> 0, iters |-> 0]

(* y in [ytrace - dy, ytrace + dy) with dy = (ymax/2) / 2^halvings. *)
LyaInWindow(yv, ytrace, ymax, halvings) ==
    LET p == Pow2(halvings + 1)
    IN  -ymax <= (yv - ytrace) * p /\ (yv - ytrace) * p < ymax

(* Lines 200-203: one pass of the while loop. *)
LyaIterate(st) ==
    LET h == st.halvings + 1
        sel == Take(st.sel,
                    Where([k \in DOMAIN st.sel |->
                              LyaInWindow(st.sel[k], st.ytrace, st.ymax, h)]))
    IN  [sel |-> sel, ytrace_old |-> st.ytrace, ytrace |-> Median(sel),
         ymax |-> st.ymax, halvings |-> h, iters |-> st.iters + 1]

RECURSIVE LyaLoop(_)
LyaLoop(st) ==
    IF LyaContinue(st.ytrace, st.ytrace_old) THEN LyaLoop(LyaIterate(st)) ELSE st

(* __lya_trace(w, y, ymax): y - ytrace. *)
LyaTrace(w, y, ymax) ==
    LET st == LyaLoop(LyaStart(w, y, ymax))
    IN  [k \in DOMAIN y |-> Sub(y[k], st.ytrace)]

(* ---------------------------- __median_trace --------------------------- *)
RECURSIVE SeqSum(_)
SeqSum(s) == IF s = <<>> THEN 0 ELSE Head(s) + SeqSum(Tail(s))

(* len(b)^2 * np.var(b): zero exactly when the variance is zero. *)
VarTimesN2(b) == Len(b) * SeqSum([k \in DOMAIN b |-> b[k] * b[k]]) - SeqSum(b) * SeqSum(b)

(* Lines 177-185: the y values of every bin of x, with their statistics. *)
MedianBins(x, y, Npix, binfac) ==
    LET bins == Arange(0, (Npix + 1) * FS, binfac * FS)
        binned == [b \in 1..(Len(bins) - 1) |-> Take(y, Divvy1(x, bins[b], bins[b + 1]))]
    IN  [mids |-> [b \in DOMAIN binned |-> (bins[b] + bins[b + 1]) \div 2],
         meds |-> [b \in DOMAIN binned |-> Median(binned[b])],
         Ns   |-> [b \in DOMAIN binned |-> Len(binned[b])],
         sig2 |-> [b \in DOMAIN binned |->
                      IF Len(binned[b]) <= 1 THEN Inf ELSE VarTimesN2(binned[b])]]

(* The arrays handed to np.polyfit hold a NaN or an infinity: an empty bin *)
(* has median NaN (NaN*0 weight is NaN), a bin of two or more equal values *)
(* has weight N/0 = inf, and weights that are all zero make polyfit's      *)
(* column scale 0 and the scaled matrix 0/0.                               *)
FitPoisoned(b) ==
    \/ \E k \in DOMAIN b.Ns : b.Ns[k] = 0
    \/ \E k \in DOMAIN b.Ns : b.Ns[k] >= 2 /\ b.sig2[k] = 0
    \/ \A k \in DOMAIN b.Ns : b.Ns[k] <= 1

(* __median_trace(x, y, Npix, binfac).  On poisoned input numpy's lstsq    *)
(* either raises LinAlgError or returns NaN coefficients, depending on the *)
(* LAPACK build (lstsq); otherwise the fitted line is kept symbolic, as    *)
(* the bins it was fitted to.                                              *)
MedianTrace(x, y, Npix, binfac, lstsq) ==
    LET b == MedianBins(x, y, Npix, binfac)
    IN  IF FitPoisoned(b)
        THEN IF lstsq = "raise"
             THEN [err |-> "LinAlgError", xdisp |-> <<>>]
             ELSE [err |-> "none", xdisp |-> [k \in DOMAIN y |-> Sub(y[k], NaN)]]
        ELSE [err |-> "none",
              xdisp |-> [k \in DOMAIN y |-> [y |-> y[k], x |-> x[k], p |-> b]]]

(* -------------------------- external collaborators --------------------- *)
(* utils.x1d_epera_solution(x1d): an opaque function of wavelength and     *)
(* order, applied element by element.                                      *)
ComputeEperA(wave, order) == [k \in DOMAIN wave |-> <<wave[k], order[k]>>]

ComputeEperA1(wave) == [k \in DOMAIN wave |-> <<wave[k]>>]

(* utils.append_cols(t, names, dtypes, data): the table with the named     *)
(* arrays attached; header and existing columns are kept.                  *)
AppendCols(t, names, dtypes, data) ==
    [t EXCEPT !.cols = @ \o [j \in DOMAIN names |->
                                [name |-> names[j], dtype |-> dtypes[j], data |-> data[j]]]]

(* del(th[key]) *)
DelKey(th, key) == [k \in (DOMAIN th) \ {key} |-> th[k]]

HasKeys(h, keys) == keys \subseteq DOMAIN h

(* ------------------------------ spectrifySTIS -------------------------- *)
(* What the build does where the source leaves it open: the integer a NaN  *)
(* becomes when it is stored into an int array (line 150), and whether     *)
(* lstsq raises on non-finite input (line 188).  One call uses at most one *)
(* of the two, so two builds give every outcome.                           *)
IntMin == -2147483647

Builds == {[nancast |-> IntMin, lstsq |-> "raise"], [nancast |-> 0, lstsq |-> "nan"]}

CastInt(v, nancast) == IF v = NaN THEN nancast ELSE v

(* Lines 115-117: odd pixel values are moved down to the even one below. *)
Snap(v) == [k \in DOMAIN v |-> IF v[k] % 2 = 1 THEN v[k] - 1 ELSE v[k]]

(* Line 121: np.random.seed(0), whatever the generator's state was. *)
SeedForExtUnseeded(rngv) == rngv

SeedForExt(rngv) == RngSeed(0)

(* Lines 127-129: the pixel grid of the x1d samples on the tag's axis. *)
XPix(Nx_tag, Nx_x1d) ==
    LET xfac == Nx_tag \div Nx_x1d
    IN  Arange(FS + (xfac * FS) \div 2, (Nx_tag + 1) * FS, xfac * FS)

Scaled(vec, fac) == [j \in DOMAIN vec |-> vec[j] * fac * FS]

(* Lines 139-144: nearest order per photon.  xdisps[l][k] is photon k's    *)
(* distance to order l; line is 0-based.                                   *)
NearestLine(xdisps, n) ==
    [k \in 1..n |-> ArgMin([l \in DOMAIN xdisps |-> Abs(xdisps[l][k])])]

PickLine(xdisps, line) == [k \in DOMAIN line |-> xdisps[line[k] + 1][k]]

(* Line 139: every photon's distance to every order's trace. *)
AllXdisps(x, y, xd, xpix, yfac) ==
    [l \in DOMAIN xd |->
        [k \in DOMAIN x |->
            Sub(y[k], InterpLinear(xpix, Scaled(xd[l].extrlocy, yfac), x[k]))]]

(* Lines 148-150 for order l: wave[ind] = ..., dq[ind] = ... *)
STISGroup(acc, ind, xs, row, xpix, nancast) ==
    [wave |-> Scatter(acc.wave, ind,
                      [j \in DOMAIN xs |->
                          InterpLinear(xpix, Scaled(row.wavelength, 1), xs[j])]),
     dq |-> Scatter(acc.dq, ind,
                    [j \in DOMAIN xs |->
                        CastInt(InterpNearest(xpix, row.dq, xs[j]), nancast)])]

(* Lines 146-150: wavelength and dq, one order at a time. *)
RECURSIVE STISGroups(_, _, _, _, _, _, _)
STISGroups(l, xd, xpix, x, line, nancast, acc) ==
    IF l >= Len(xd) THEN acc
    ELSE STISGroups(l + 1, xd, xpix, x, line, nancast,
                    STISGroup(acc, Where([k \in DOMAIN line |-> line[k] = l]),
                              Take(x, Where([k \in DOMAIN line |-> line[k] = l])),
                              xd[l + 1], xpix, nancast))

Zeros(n) == [k \in 1..n |-> 0]

(* Lines 143-151: the output arrays of the multi-order branch. *)
STISMultiOut(xd, xdisps, line, g) ==
    [err |-> "none", wave |-> g.wave, xdisp |-> PickLine(xdisps, line),
     epera |-> ComputeEperA(g.wave, line),
     order |-> [k \in DOMAIN line |-> xd[line[k] + 1].sporder], dq |-> g.dq]

STISMultiLine(x, xd, xpix, nancast, xdisps, line) ==
    STISMultiOut(xd, xdisps, line,
                 STISGroups(0, xd, xpix, x, line, nancast,
                            [wave |-> Zeros(Len(x)), dq |-> Zeros(Len(x))]))

STISMulti(x, xd, xpix, nancast, xdisps) ==
    STISMultiLine(x, xd, xpix, nancast, xdisps, NearestLine(xdisps, Len(x)))

(* Lines 154-163: the output arrays of the single-order branch. *)
STISSingleOut(wave, xdisp, xd, xpix, x) ==
    [err |-> "none", wave |-> wave, xdisp |-> xdisp, epera |-> ComputeEperA1(wave),
     order |-> [k \in DOMAIN x |-> xd[1].sporder],
     dq |-> [k \in DOMAIN x |-> InterpNearest(xpix, xd[1].dq, x[k])]]

STISSingleMedian(med, wave, xd, xpix, x) ==
    IF med.err # "none" THEN [err |-> med.err]
    ELSE STISSingleOut(wave, med.xdisp, xd, xpix, x)

STISSingle(x, y, xd, xpix, yfac, Nx_tag, Ny_tag, traceloc, lstsq, wave) ==
    IF traceloc = "stsci"
    THEN STISSingleOut(wave,
                       [k \in DOMAIN x |->
                           Sub(y[k], InterpLinear(xpix, Scaled(xd[1].extrlocy, yfac), x[k]))],
                       xd, xpix, x)
    ELSE IF traceloc = "median"
    THEN STISSingleMedian(MedianTrace(x, y, Nx_tag, 1, lstsq), wave, xd, xpix, x)
    ELSE IF traceloc = "lya"
    THEN STISSingleOut(wave, LyaTrace(wave, y, Ny_tag * FS), xd, xpix, x)
    ELSE [err |-> "NameError"]

(* Lines 137-163 for one extension: the five output arrays, or an error. *)
STISColumns(x, y, xd, Norders, xpix, yfac, Nx_tag, Ny_tag, traceloc, build) ==
    IF Norders > 1
    THEN STISMulti(x, xd, xpix, build.nancast, AllXdisps(x, y, xd, xpix, yfac))
    ELSE IF Norders = 1
    THEN STISSingle(x, y, xd, xpix, yfac, Nx_tag, Ny_tag, traceloc, build.lstsq,
                    [k \in DOMAIN x |->
                        InterpLinear(xpix, Scaled(xd[1].wavelength, 1), x[k])])
    ELSE [err |-> "NameError"]

(* Line 109: del(th['tscal1']). *)
KeepTscal1(th) == th

DeleteTscal1(th) == DelKey(th, "tscal1")

(* Lines 108-117: the time column is scaled, tscal1 is deleted and the two *)
(* pixel columns are snapped, all in place.                                *)
STISRescale(t) ==
    [t EXCEPT !.hdr = DeleteTscal1(t.hdr),
              !.data = [t.data EXCEPT
                           !.time = [k \in DOMAIN t.data.time |->
                                        t.data.time[k] * t.hdr["tscal1"]],
                           !.axis1 = Snap(t.data.axis1),
                           !.axis2 = Snap(t.data.axis2)]]

(* Lines 121-123: x and y with their sub-pixel offsets. *)
DequantizeXY(ax1, ax2, rx, ry) ==
    [x |-> [k \in DOMAIN ax1 |-> ax1[k] * FS + rx.vals[k]],
     y |-> [k \in DOMAIN ax2 |-> ax2[k] * FS + ry.vals[k]],
     rng |-> ry.state]

DequantizeFrom(ax1, ax2, rx) ==
    DequantizeXY(ax1, ax2, rx, RandomArray(rx.state, Len(ax2)))

Dequantize(t1, rngv) ==
    DequantizeFrom(t1.data.axis1, t1.data.axis2,
                   RandomArray(SeedForExt(rngv), Len(t1.data.axis1)))

(* Lines 165-168. *)
STISAppend(t1, q, c) ==
    IF c.err # "none"
    THEN [ext |-> t1, rng |-> q.rng, err |-> c.err, deq |-> <<q>>]
    ELSE [ext |-> AppendCols(t1, <<"wavelength", "xdisp", "epera", "order", "dq">>,
                             <<"1D", "1D", "1D", "1I", "1I">>,
                             <<c.wave, c.xdisp, c.epera, c.order, c.dq>>),
          rng |-> q.rng, err |-> "none", deq |-> <<q>>]

(* Lines 127-168. *)
STISAnnotate(t1, q, x1dv, traceloc, build) ==
    IF ~HasKeys(t1.hdr, {"axlen1", "axlen2"})
    THEN [ext |-> t1, rng |-> q.rng, err |-> "KeyError", deq |-> <<q>>]
    ELSE STISAppend(t1, q,
                    STISColumns(q.x, q.y, x1dv.sci.data, x1dv.sci.hdr["naxis2"],
                                XPix(t1.hdr["axlen1"], x1dv.hdr0["sizaxis1"]),
                                t1.hdr["axlen2"] \div x1dv.hdr0["sizaxis2"],
                                t1.hdr["axlen1"], t1.hdr["axlen2"], traceloc, build))

STISDequantized(t1, x1dv, traceloc, rngv, build) ==
    STISAnnotate(t1, Dequantize(t1, rngv), x1dv, traceloc, build)

(* Lines 105-168: one EVENTS extension. *)
STISExt(t, x1dv, traceloc, rngv, build) ==
    IF ~HasKeys(t.hdr, {"tscal1"})
    THEN [ext |-> t, rng |-> rngv, err |-> "KeyError", deq |-> <<>>]
    ELSE STISDequantized(STISRescale(t), x1dv, traceloc, rngv, build)

LogOf(i, deq) == [j \in DOMAIN deq |-> [i |-> i, x |-> deq[j].x, y |-> deq[j].y]]

(* Lines 103-104: the loop over the tag list, ended by the first error. *)
RECURSIVE STISLoop(_, _, _, _, _, _, _)
RECURSIVE STISLoopStep(_, _, _, _, _, _, _)
STISLoopStep(tagv, i, r, log, x1dv, traceloc, build) ==
    IF r.err # "none"
    THEN [tag |-> [tagv EXCEPT ![i] = r.ext], rng |-> r.rng, err |-> r.err,
          deqlog |-> log \o LogOf(i, r.deq)]
    ELSE STISLoop([tagv EXCEPT ![i] = r.ext], i + 1, r.rng, log \o LogOf(i, r.deq),
                  x1dv, traceloc, build)

STISLoop(tagv, i, rngv, log, x1dv, traceloc, build) ==
    IF i > Len(tagv) THEN [tag |-> tagv, rng |-> rngv, err |-> "none", deqlog |-> log]
    ELSE IF tagv[i].name # "EVENTS"
    THEN STISLoop(tagv, i + 1, rngv, log, x1dv, traceloc, build)
    ELSE STISLoopStep(tagv, i, STISExt(tagv[i], x1dv, traceloc, rngv, build), log,
                      x1dv, traceloc, build)

(* Line 98 calls NotImplemented, which is not callable: a TypeError. *)
STISConfigError == "TypeError"

(* spectrifySTIS(tag, x1d, traceloc), lines 93-168. *)
SpectrifySTISOp(tagv, x1dv, traceloc, rngv, build) ==
    LET fail(e) == [tag |-> tagv, rng |-> rngv, err |-> e, deqlog |-> <<>>]
    IN  IF ~HasKeys(x1dv.sci.hdr, {"naxis2"}) \/ ~HasKeys(x1dv.hdr0, {"sizaxis1", "sizaxis2"})
        THEN fail("KeyError")
        ELSE IF x1dv.sci.hdr["naxis2"] > 1 /\ traceloc # "stsci"
        THEN fail(STISConfigError)
        ELSE STISLoop(tagv, 1, rngv, <<>>, x1dv, traceloc, build)

(* ------------------------------ spectrifyCOS --------------------------- *)
SpLocKey(letter) ==
    CASE letter = "A" -> "SP_LOC_A" [] letter = "B" -> "SP_LOC_B" [] OTHER -> "SP_LOC_C"

SpOffKey(letter) ==
    CASE letter = "A" -> "SP_OFF_A" [] letter = "B" -> "SP_OFF_B" [] OTHER -> "SP_OFF_C"

(* Line 47 raises NotImplementedError. *)
COSConfigError == "NotImplementedError"

(* Lines 41-83: one EVENTS extension.  A segment name is the pair of its   *)
(* detector and its last letter.                                           *)
COSExt(t, x1dv, segment, det, traceloc, build) ==
    LET td == t.data
        th == t.hdr
        xh == x1dv.sci.hdr
        n == Len(td.time)
        yfull == [k \in DOMAIN td.yfull |-> td.yfull[k] * FS]
        xfull == [k \in DOMAIN td.xfull |-> td.xfull[k] * FS]
        wavelength == [k \in DOMAIN td.wavelength |-> td.wavelength[k] * FS]
        fail(e) == [ext |-> t, err |-> e]
        done(order, xdisp) ==
            [ext |-> AppendCols(t, <<"order", "xdisp", "epera">>, <<"1I", "1E", "1D">>,
                                <<order, xdisp, ComputeEperA(wavelength, order)>>),
             err |-> "none"]
        fuvorder == [k \in 1..n |-> IF segment.letter = "A" THEN 0 ELSE 1]
    IN  IF traceloc # "stsci" /\ det = "NUV" THEN fail(COSConfigError)
        ELSE IF traceloc = "stsci"
        THEN IF det = "NUV"
             THEN LET segs == [l \in DOMAIN x1dv.sci.data |-> x1dv.sci.data[l].segment.letter]
                  IN  IF \E l \in DOMAIN segs : ~HasKeys(xh, {SpLocKey(segs[l])})
                      THEN fail("KeyError")
                      ELSE LET yextr == [l \in DOMAIN segs |-> xh[SpLocKey(segs[l])] * FS]
                               xdisps == [l \in DOMAIN segs |->
                                             [k \in DOMAIN yfull |-> Sub(yfull[k], yextr[l])]]
                               order == NearestLine(xdisps, Len(yfull))
                           IN  done(order, PickLine(xdisps, order))
             ELSE IF ~HasKeys(xh, {SpLocKey(segment.letter), SpOffKey(segment.letter)})
             THEN fail("KeyError")
             ELSE IF det # "FUV" THEN fail("NameError")
             ELSE LET yspec == (xh[SpLocKey(segment.letter)] + xh[SpOffKey(segment.letter)]) * FS
                  IN  done(fuvorder, [k \in DOMAIN yfull |-> Sub(yfull[k], yspec)])
        ELSE IF traceloc = "median"
        THEN IF ~HasKeys(th, {"talen2"}) THEN fail("KeyError")
             ELSE LET med == MedianTrace(xfull, yfull, th["talen2"], 8, build.lstsq)
                  IN  IF med.err # "none" THEN fail(med.err)
                      ELSE IF det # "FUV" THEN fail("NameError")
                      ELSE done(fuvorder, med.xdisp)
        ELSE IF traceloc = "lya"
        THEN IF ~HasKeys(th, {"talen3"}) THEN fail("KeyError")
             ELSE IF det # "FUV" THEN fail("NameError")
             ELSE done(fuvorder, LyaTrace(wavelength, yfull, th["talen3"] * FS))
        ELSE fail("NameError")

(* Lines 38-39: the loop over the tag list, ended by the first error. *)
RECURSIVE COSLoop(_, _, _, _, _, _, _)
COSLoop(tagv, i, x1dv, segment, det, traceloc, build) ==
    IF i > Len(tagv) THEN [tag |-> tagv, err |-> "none"]
    ELSE IF tagv[i].name # "EVENTS"
    THEN COSLoop(tagv, i + 1, x1dv, segment, det, traceloc, build)
    ELSE LET r == COSExt(tagv[i], x1dv, segment, det, traceloc, build)
         IN  IF r.err # "none"
             THEN [tag |-> tagv, err |-> r.err]
             ELSE COSLoop([tagv EXCEPT ![i] = r.ext], i + 1, x1dv, segment, det,
                          traceloc, build)

(* spectrifyCOS(tag, x1d, traceloc), lines 32-83. *)
SpectrifyCOSOp(tagv, x1dv, traceloc, rngv, build) ==
    IF ~HasKeys(tagv[1].hdr, {"segment", "detector"})
    THEN [tag |-> tagv, rng |-> rngv, err |-> "KeyError", deqlog |-> <<>>]
    ELSE LET r == COSLoop(tagv, 1, x1dv, tagv[1].hdr["segment"], tagv[1].hdr["detector"],
                          traceloc, build)
         IN  [tag |-> r.tag, rng |-> rngv, err |-> r.err, deqlog |-> <<>>]

(* -------------------------------- spectrify ---------------------------- *)
(* utils.same_obs([tag, x1d]) raises when the two files are not of one     *)
(* observation.                                                            *)
SameObsRaises(ok) == ~ok

(* Lines 17-22: the branch taken for an instrument name. *)
RouteDefaultSTIS(inst) == IF inst = "COS" THEN "COS" ELSE "STIS"

Route(inst) ==
    IF inst = "COS" THEN "COS" ELSE IF inst = "STIS" THEN "STIS" ELSE "ValueError"

(* spectrify(tag, x1d, traceloc), lines 15-22. *)
SpectrifyOp(tagv, x1dv, traceloc, rngv, build, ok) ==
    LET fail(e) == [tag |-> tagv, rng |-> rngv, err |-> e, deqlog |-> <<>>]
    IN  IF SameObsRaises(ok) THEN fail("ConsistencyError")
        ELSE IF ~HasKeys(x1dv.hdr0, {"instrume"}) THEN fail("KeyError")
        ELSE LET to == Route(x1dv.hdr0["instrume"])
             IN  IF to = "COS" THEN SpectrifyCOSOp(tagv, x1dv, traceloc, rngv, build)
                 ELSE IF to = "STIS" THEN SpectrifySTISOp(tagv, x1dv, traceloc, rngv, build)
                 ELSE fail("ValueError")

(* ------------------------------ the inputs ----------------------------- *)
Tracelocs == {"stsci", "median", "lya"}

TimeCol(n) == [k \in 1..n |-> 2 * k + 1]

Column(tbl, j) == [k \in DOMAIN tbl |-> tbl[k][j]]

Tables(pool) == UNION {[1..n -> pool] : n \in 1..MaxPhotons}

(* The photon tables of the two extensions after the primary header; an    *)
(* empty table stands for an extension that is not an EVENTS extension.    *)
Layouts(pool) ==
    {l \in (Tables(pool) \cup {<<>>}) \X (Tables(pool) \cup {<<>>}) :
        Len(l[1]) + Len(l[2]) <= MaxPhotons}

(* A header key that is missing from one extension. *)
Defects(keys) == {<<"none", 0>>} \cup (keys \X {1, 2})

Header(h, defect, slot) == IF defect[2] = slot THEN DelKey(h, defect[1]) ELSE h

Gti == [name |-> "GTI", hdr |-> [extname |-> "GTI"], data |-> [start |-> <<0>>], cols |-> <<>>]

(* STIS: photons are <<axis1, axis2>> detector pixels on a 4 x 4 pixel     *)
(* axis, the x1d holds two samples per order on a 2 x 2 pixel axis.        *)
StisPool == {<<1, 2>>, <<3, 2>>, <<3, 4>>}

StisHdr == [tscal1 |-> 2, axlen1 |-> 4, axlen2 |-> 4]

StisEvents(tbl, h) ==
    IF tbl = <<>> THEN Gti
    ELSE [name |-> "EVENTS", hdr |-> h,
          data |-> [time |-> TimeCol(Len(tbl)), axis1 |-> Column(tbl, 1),
                    axis2 |-> Column(tbl, 2)],
          cols |-> <<>>]

StisTag(l, defect) ==
    <<[name |-> "PRIMARY", hdr |-> [instrume |-> "STIS"], data |-> [none |-> <<>>],
       cols |-> <<>>],
      StisEvents(l[1], Header(StisHdr, defect, 1)),
      StisEvents(l[2], Header(StisHdr, defect, 2))>>

StisRows ==
    <<[extrlocy |-> <<1, 1>>, wavelength |-> <<12140, 12180>>, dq |-> <<0, 4>>, sporder |-> 1],
      [extrlocy |-> <<2, 2>>, wavelength |-> <<13000, 13040>>, dq |-> <<16, 0>>, sporder |-> 2]>>

StisX1d(inst, Norders) ==
    [hdr0 |-> [instrume |-> inst, sizaxis1 |-> 2, sizaxis2 |-> 2],
     sci |-> [hdr |-> [naxis2 |-> Norders], data |-> SubSeq(StisRows, 1, Norders)]]

(* COS: photons are <<xfull, yfull, wavelength>>. *)
CosPool == {<<2, 4, 12150>>, <<10, 7, 12160>>, <<3, 2, 13000>>}

CosHdr == [talen2 |-> 16, talen3 |-> 8]

CosEvents(tbl, h) ==
    IF tbl = <<>> THEN Gti
    ELSE [name |-> "EVENTS", hdr |-> h,
          data |-> [time |-> TimeCol(Len(tbl)), xfull |-> Column(tbl, 1),
                    yfull |-> Column(tbl, 2), wavelength |-> Column(tbl, 3)],
          cols |-> <<>>]

CosTag(l, defect, det, letter) ==
    <<[name |-> "PRIMARY",
       hdr |-> [instrume |-> "COS", detector |-> det,
                segment |-> [det |-> det, letter |-> letter]],
       data |-> [none |-> <<>>], cols |-> <<>>],
      CosEvents(l[1], Header(CosHdr, defect, 1)),
      CosEvents(l[2], Header(CosHdr, defect, 2))>>

CosX1d(det) ==
    [hdr0 |-> [instrume |-> "COS"],
     sci |-> [hdr |-> [naxis2 |-> IF det = "NUV" THEN 3 ELSE 1,
                       SP_LOC_A |-> 2, SP_LOC_B |-> 6, SP_LOC_C |-> 10,
                       SP_OFF_A |-> 1, SP_OFF_B |-> 1, SP_OFF_C |-> 1],
              data |-> IF det = "NUV"
                       THEN [l \in 1..3 |->
                                [segment |-> [det |-> det, letter |-> <<"A", "B", "C">>[l]]]]
                       ELSE <<[segment |-> [det |-> det, letter |-> "A"]]>>]]

(* The pairs of a tag list and an x1d the model starts from. *)
Inputs ==
    {[tag |-> StisTag(l, d), x1d |-> StisX1d("STIS", N)] :
        l \in Layouts(StisPool), d \in Defects({"tscal1", "axlen1"}), N \in {1, 2}}
    \cup {[tag |-> StisTag(l, <<"none", 0>>), x1d |-> StisX1d("ACS", 1)] :
        l \in Layouts(StisPool)}
    \cup {[tag |-> CosTag(l, d, c[1], c[2]), x1d |-> CosX1d(c[1])] :
        l \in Layouts(CosPool), d \in Defects({"talen2"}),
        c \in {<<"FUV", "A">>, <<"FUV", "B">>, <<"NUV", "A">>}}

(* ------------------------------ the machine ---------------------------- *)
LyaIdle == [pc |-> "idle"]

InitCommon ==
    /\ \E in \in Inputs : tag = in.tag /\ x1d = in.x1d
    /\ tag0 = tag
    /\ rng \in {1, 2}
    /\ err = "none"
    /\ last = [fn |-> "none", traceloc |-> "none"]
    /\ deqlog = <<>>
    /\ ncalls = 0
    /\ lya = LyaIdle

Returned(fn, traceloc, r) ==
    /\ tag' = r.tag
    /\ rng' = r.rng
    /\ err' = r.err
    /\ deqlog' = r.deqlog
    /\ last' = [fn |-> fn, traceloc |-> traceloc]
    /\ ncalls' = ncalls + 1
    /\ UNCHANGED <<tag0, x1d, sameObsOK, lya>>

Spectrify(traceloc) ==
    /\ ncalls < MaxCalls
    /\ \E build \in Builds :
          Returned("spectrify", traceloc,
                   SpectrifyOp(tag, x1d, traceloc, rng, build, sameObsOK))

SpectrifyCOS(traceloc) ==
    /\ ncalls < MaxCalls
    /\ \E build \in Builds :
          Returned("spectrifyCOS", traceloc, SpectrifyCOSOp(tag, x1d, traceloc, rng, build))

SpectrifySTIS(traceloc) ==
    /\ ncalls < MaxCalls
    /\ \E build \in Builds :
          Returned("spectrifySTIS", traceloc, SpectrifySTISOp(tag, x1d, traceloc, rng, build))

(* Calls of the dispatcher, on pairs of files that are or are not of one   *)
(* observation.                                                            *)
Init == InitCommon /\ sameObsOK \in BOOLEAN

Next == \E traceloc \in Tracelocs : Spectrify(traceloc)

Spec == Init /\ [][Next]_vars

(* Direct calls of the two annotators. *)
InitAnnot == InitCommon /\ sameObsOK = TRUE

NextAnnot ==
    \/ \E traceloc \in Tracelocs : SpectrifyCOS(traceloc)
    \/ \E traceloc \in Tracelocs : SpectrifySTIS(traceloc)

SpecAnnot == InitAnnot /\ [][NextAnnot]_vars

(* __lya_trace on its own, one pass of its loop at a time.  Samples are    *)
(* <<w, y>> pairs.                                                         *)
LyaPool == {12150, 13000} \X {0, 2, 3, 4, 5, 6}

LyaYmax == {2, 8, 64}

InitLya ==
    /\ tag = <<>> /\ tag0 = <<>> /\ x1d = <<>> /\ sameObsOK = TRUE /\ rng = 0
    /\ err = "none" /\ last = [fn |-> "none", traceloc |-> "none"]
    /\ deqlog = <<>> /\ ncalls = 0
    /\ \E n \in 1..MaxSamples : \E cnts \in [1..n -> LyaPool] : \E ymax \in LyaYmax :
          lya = [pc |-> "called",
                 w |-> [k \in 1..n |-> cnts[k][1] * FS],
                 y |-> [k \in 1..n |-> cnts[k][2] * FS],
                 ymax |-> ymax * FS]

(* Lines 192-197. *)
LyaSelect ==
    /\ lya.pc = "called"
    /\ lya' = [pc |-> "loop", w |-> lya.w, y |-> lya.y, ymax |-> lya.ymax,
               st |-> LyaStart(lya.w, lya.y, lya.ymax)]
    /\ UNCHANGED <<tag, tag0, x1d, sameObsOK, rng, err, last, deqlog, ncalls>>

(* Lines 199-203: the loop test holds and the body runs once. *)
LyaPass ==
    /\ lya.pc = "loop"
    /\ LyaContinue(lya.st.ytrace, lya.st.ytrace_old)
    /\ lya' = [lya EXCEPT !.st = LyaIterate(lya.st)]
    /\ UNCHANGED <<tag, tag0, x1d, sameObsOK, rng, err, last, deqlog, ncalls>>

(* Lines 199 and 204: the loop test fails and y - ytrace is returned. *)
LyaReturn ==
    /\ lya.pc = "loop"
    /\ ~LyaContinue(lya.st.ytrace, lya.st.ytrace_old)
    /\ lya' = [pc |-> "returned", w |-> lya.w, y |-> lya.y, ymax |-> lya.ymax,
               st |-> lya.st,
               result |-> [k \in DOMAIN lya.y |-> Sub(lya.y[k], lya.st.ytrace)]]
    /\ UNCHANGED <<tag, tag0, x1d, sameObsOK, rng, err, last, deqlog, ncalls>>

NextLya == LyaSelect \/ LyaPass \/ LyaReturn

SpecLya == InitLya /\ [][NextLya]_vars

(* ======================== properties of the annotators ================= *)
Events(tg) == {i \in DOMAIN tg : tg[i].name = "EVENTS"}

ColNames(t) == {t.cols[j].name : j \in DOMAIN t.cols}

(* The array last appended to t under a column name. *)
LastCol(t, name) ==
    LET js == {j \in DOMAIN t.cols : t.cols[j].name = name}
    IN  t.cols[CHOOSE j \in js : \A j2 \in js : j2 <= j].data

Instrume == x1d.hdr0["instrume"]

CalledOwnAnnotator ==
    \/ Instrume = "STIS" /\ last.fn = "spectrifySTIS"
    \/ Instrume = "COS" /\ last.fn = "spectrifyCOS"

MultiTrace ==
    \/ Instrume = "STIS" /\ x1d.sci.hdr["naxis2"] > 1
    \/ Instrume = "COS" /\ tag0[1].hdr["detector"] = "NUV"

(* The m-th value np.random.random()*2.0 gives after np.random.seed(0). *)
RECURSIVE RngAfter(_, _)
RngAfter(s, m) == IF m = 0 THEN s ELSE RngAfter(RngNext(s), m - 1)

SeededDraw(m) == RandomTimes2(RngAfter(RngSeed(0), m))

SnapOne(v) == IF v % 2 = 1 THEN v - 1 ELSE v

(* C1: a call of spectrifyCOS or spectrifySTIS that ends in an error       *)
(* leaves every extension of the tag list as it was: no column appended,   *)
(* no column and no header keyword changed.                                *)
C1_AllOrNothing ==
    [][(ncalls' = ncalls + 1 /\ err' # "none") => tag' = tag]_vars

(* C2: median or lya on a geometry with more than one trace (COS NUV, STIS *)
(* with more than one order) ends in the unsupported-configuration error   *)
(* and appends nothing.                                                    *)
C2_ConfigurationRejected ==
    (ncalls = 1 /\ CalledOwnAnnotator /\ MultiTrace /\ last.traceloc \in {"median", "lya"})
        => (err = "NotImplementedError" /\ tag = tag0)

(* C5: through the dispatcher, a failed same_obs check or an unrecognised  *)
(* instrument name ends the call with that error and the tag list as it    *)
(* was; hence the tag list changes only after the check has passed and the *)
(* instrument is COS or STIS.                                              *)
C5_DispatcherGuard ==
    (ncalls >= 1 /\ (~sameObsOK \/ Instrume \notin {"COS", "STIS"}))
        => /\ tag = tag0
           /\ err = IF ~sameObsOK THEN "ConsistencyError" ELSE "ValueError"

C5_Witness ==
    /\ ncalls >= 1 /\ ~sameObsOK /\ Instrume = "STIS" /\ err = "ConsistencyError"
    /\ last.traceloc = "stsci" /\ Events(tag) # {}

(* C7: the offsets spectrifySTIS adds to x and y of an extension of n      *)
(* photons are the first n and the next n values the generator gives after *)
(* seed(0), whatever came before, and lie in [0, 2) pixels.                *)
C7_DequantizationDeterministic ==
    \A j \in DOMAIN deqlog :
        LET e == deqlog[j]
            d == tag0[e.i].data
            n == Len(d.axis1)
        IN  \A k \in 1..n :
               /\ e.x[k] - SnapOne(d.axis1[k]) * FS = SeededDraw(k)
               /\ e.y[k] - SnapOne(d.axis2[k]) * FS = SeededDraw(n + k)
               /\ 0 <= e.x[k] - SnapOne(d.axis1[k]) * FS
               /\ e.x[k] - SnapOne(d.axis1[k]) * FS < 2 * FS
               /\ 0 <= e.y[k] - SnapOne(d.axis2[k]) * FS
               /\ e.y[k] - SnapOne(d.axis2[k]) * FS < 2 * FS

(* A second call, after a first one that left the generator elsewhere,     *)
(* dequantizes two extensions of different sizes.                          *)
C7_Witness ==
    /\ ncalls = 2 /\ err = "none" /\ Len(deqlog) = 2
    /\ Len(deqlog[1].x) # Len(deqlog[2].x)
    /\ rng # RngSeed(0)

(* C8: whatever calls were made, the time column of an EVENTS extension is *)
(* its original value or that value times tscal1, and once it is scaled    *)
(* the header holds no tscal1.                                             *)
C8_TimeScaledAtMostOnce ==
    \A i \in Events(tag0) :
        LET t0 == tag0[i].data.time
            t == tag[i].data.time
        IN  /\ \/ t = t0
               \/ /\ HasKeys(tag0[i].hdr, {"tscal1"})
                  /\ t = [k \in DOMAIN t0 |-> t0[k] * tag0[i].hdr["tscal1"]]
            /\ t # t0 => ~HasKeys(tag[i].hdr, {"tscal1"})

(* spectrifySTIS was called again on a tag list it had annotated. *)
C8_Witness ==
    /\ ncalls = 2 /\ last.fn = "spectrifySTIS" /\ err = "KeyError"
    /\ Cardinality(Events(tag0)) = 2
    /\ \A i \in Events(tag0) :
          "wavelength" \in ColNames(tag[i]) /\ tag[i].data.time # tag0[i].data.time

(* ---- what the annotators owe each photon, from the original tables ---- *)
IsStis == Instrume = "STIS"

NPhotons(i) == Len(tag0[i].data.time)

Completed == ncalls >= 1 /\ err = "none" /\ CalledOwnAnnotator

StisGrid(i) == XPix(tag0[i].hdr["axlen1"], x1d.hdr0["sizaxis1"])

(* The coordinates the estimators and interpolants are given for photon k  *)
(* of extension i.                                                         *)
PhotonX(i, k) ==
    IF IsStis THEN SnapOne(tag0[i].data.axis1[k]) * FS + SeededDraw(k)
    ELSE tag0[i].data.xfull[k] * FS

PhotonY(i, k) ==
    IF IsStis THEN SnapOne(tag0[i].data.axis2[k]) * FS + SeededDraw(NPhotons(i) + k)
    ELSE tag0[i].data.yfull[k] * FS

(* The position of trace l at photon k. *)
TraceAt(i, l, k) ==
    IF IsStis
    THEN InterpLinear(StisGrid(i),
                      Scaled(x1d.sci.data[l].extrlocy,
                             tag0[i].hdr["axlen2"] \div x1d.hdr0["sizaxis2"]),
                      PhotonX(i, k))
    ELSE x1d.sci.hdr[SpLocKey(x1d.sci.data[l].segment.letter)] * FS

Dist(i, l, k) == Sub(PhotonY(i, k), TraceAt(i, l, k))

(* The 0-based index the annotator gave photon k. *)
Assigned(i, k) ==
    IF IsStis THEN LastCol(tag[i], "epera")[k][2] ELSE LastCol(tag[i], "order")[k]

Less(p, q) == p # NaN /\ q # NaN /\ p < q

NearestOK(i, k) ==
    LET a == Assigned(i, k) + 1
    IN  /\ a \in DOMAIN x1d.sci.data
        /\ \A l \in DOMAIN x1d.sci.data : ~Less(Abs(Dist(i, l, k)), Abs(Dist(i, a, k)))
        /\ \A l \in 1..(a - 1) : Less(Abs(Dist(i, a, k)), Abs(Dist(i, l, k)))
        /\ LastCol(tag[i], "xdisp")[k] = Dist(i, a, k)
        /\ IsStis => LastCol(tag[i], "order")[k] = x1d.sci.data[a].sporder

OffGrid(i, k) ==
    PhotonX(i, k) < StisGrid(i)[1] \/ PhotonX(i, k) > StisGrid(i)[Len(StisGrid(i))]

(* C4: when spectrifySTIS completes, a photon whose x is off the grid has  *)
(* wavelength NaN and dq NaN, with one order or several.                   *)
C4_OffGridUndefined ==
    (Completed /\ IsStis)
        => \A i \in Events(tag0) : \A k \in 1..NPhotons(i) :
              OffGrid(i, k) => /\ LastCol(tag[i], "wavelength")[k] = NaN
                               /\ LastCol(tag[i], "dq")[k] = NaN

OutCols == IF IsStis THEN {"wavelength", "xdisp", "epera", "order", "dq"}
           ELSE {"order", "xdisp", "epera"}

NanCasts == {b.nancast : b \in Builds}

ExpWave(i, k, a) ==
    InterpLinear(StisGrid(i), Scaled(x1d.sci.data[a].wavelength, 1), PhotonX(i, k))

ExpDq(i, k, a) == InterpNearest(StisGrid(i), x1d.sci.data[a].dq, PhotonX(i, k))

(* Photon k's wavelength, dq, order and epera in a STIS extension. *)
StisRowOK(i, k) ==
    LET a == IF MultiTrace THEN Assigned(i, k) + 1 ELSE 1
        t == tag[i]
    IN  /\ LastCol(t, "wavelength")[k] = ExpWave(i, k, a)
        /\ IF MultiTrace /\ ExpDq(i, k, a) = NaN
           THEN LastCol(t, "dq")[k] \in NanCasts
           ELSE LastCol(t, "dq")[k] = ExpDq(i, k, a)
        /\ LastCol(t, "order")[k] = x1d.sci.data[a].sporder
        /\ LastCol(t, "epera")[k] =
              IF MultiTrace THEN <<ExpWave(i, k, a), a - 1>> ELSE <<ExpWave(i, k, a)>>

(* Photon k's order and epera in a COS extension. *)
CosRowOK(i, k) ==
    LET t == tag[i]
    IN  /\ MultiTrace
           \/ LastCol(t, "order")[k] = IF tag0[1].hdr["segment"].letter = "A" THEN 0 ELSE 1
        /\ LastCol(t, "epera")[k] =
              <<tag0[i].data.wavelength[k] * FS, LastCol(t, "order")[k]>>

TraceBins(i) ==
    MedianBins([k \in 1..NPhotons(i) |-> PhotonX(i, k)],
               [k \in 1..NPhotons(i) |-> PhotonY(i, k)],
               IF IsStis THEN tag0[i].hdr["axlen1"] ELSE tag0[i].hdr["talen2"],
               IF IsStis THEN 1 ELSE 8)

(* Photon k's xdisp: its own y less the trace at its own x. *)
XdispOK(i, k) ==
    LET col == LastCol(tag[i], "xdisp")
    IN  IF MultiTrace THEN NearestOK(i, k)
        ELSE IF last.traceloc = "stsci"
        THEN col[k] = IF IsStis THEN Dist(i, 1, k)
                      ELSE Sub(PhotonY(i, k),
                               (x1d.sci.hdr[SpLocKey(tag0[1].hdr["segment"].letter)]
                                + x1d.sci.hdr[SpOffKey(tag0[1].hdr["segment"].letter)]) * FS)
        ELSE IF last.traceloc = "median"
        THEN IF FitPoisoned(TraceBins(i)) THEN col[k] = NaN
             ELSE col[k].y = PhotonY(i, k) /\ col[k].x = PhotonX(i, k) /\ col[k].p = col[1].p
        ELSE \/ col[k] = NaN /\ col[1] = NaN
             \/ /\ col[k] # NaN /\ col[1] # NaN
                /\ PhotonY(i, k) - col[k] = PhotonY(i, 1) - col[1]

(* C6: when an annotator completes, every appended column of an EVENTS     *)
(* extension has one entry per photon of the table, entry k being the      *)
(* value of photon k, and the other extensions are untouched.              *)
C6_PositionalAnnotation ==
    Completed =>
        \A i \in DOMAIN tag0 :
            IF i \notin Events(tag0) THEN tag[i] = tag0[i]
            ELSE /\ \A c \in DOMAIN tag0[i].data :
                       DOMAIN tag[i].data[c] = 1..NPhotons(i)
                 /\ OutCols \subseteq ColNames(tag[i])
                 /\ \A name \in OutCols :
                       DOMAIN LastCol(tag[i], name) = 1..NPhotons(i)
                 /\ \A k \in 1..NPhotons(i) :
                       /\ IF IsStis THEN StisRowOK(i, k) ELSE CosRowOK(i, k)
                       /\ XdispOK(i, k)

(* The first photon of a STIS table lies on the second order and the       *)
(* second photon on the first, so the per-order groups are interleaved.    *)
C6_Witness ==
    /\ Completed /\ IsStis /\ MultiTrace
    /\ \E i \in Events(tag0) :
          /\ NPhotons(i) >= 2
          /\ Assigned(i, 1) = 1 /\ Assigned(i, 2) = 0
          /\ LastCol(tag[i], "wavelength")[1] # NaN
          /\ LastCol(tag[i], "wavelength")[2] # NaN
          /\ LastCol(tag[i], "wavelength")[1] # LastCol(tag[i], "wavelength")[2]

(* ---- the degenerate inputs of the two trace estimators ---- *)
FirstEvents == CHOOSE i \in Events(tag0) : \A j \in Events(tag0) : i <= j

AllBinsThin(i) == \A b \in DOMAIN TraceBins(i).Ns : TraceBins(i).Ns[b] <= 1

LyaWave(i, k) == IF IsStis THEN ExpWave(i, k, 1) ELSE tag0[i].data.wavelength[k] * FS

LyaSelection(i) ==
    Take([k \in 1..NPhotons(i) |-> PhotonY(i, k)],
         Divvy1([k \in 1..NPhotons(i) |-> LyaWave(i, k)], LyaLo * FS, LyaHi * FS))

Degenerate(i) ==
    IF last.traceloc = "median"
    THEN HasKeys(tag0[i].hdr, IF IsStis THEN {"tscal1", "axlen1", "axlen2"} ELSE {"talen2"})
         /\ AllBinsThin(i)
    ELSE HasKeys(tag0[i].hdr, IF IsStis THEN {"tscal1", "axlen1", "axlen2"} ELSE {"talen3"})
         /\ (LyaSelection(i) = <<>> \/ Median(LyaSelection(i)) = 0)

(* C9: median with no bin of two or more samples, or lya with no sample in *)
(* the line window or a centroid of zero, ends the call in an error and    *)
(* appends no column.                                                      *)
C9_DegeneracySurfaced ==
    (/\ ncalls = 1 /\ CalledOwnAnnotator /\ ~MultiTrace
     /\ last.traceloc \in {"median", "lya"}
     /\ Events(tag0) # {}
     /\ Degenerate(FirstEvents))
        => (err # "none" /\ \A i \in DOMAIN tag : tag[i].cols = <<>>)

(* ---- __lya_trace on a cluster of samples ---- *)
(* The y values of the samples inside the line window, lines 193-194. *)
LyaCluster == Take(lya.y, Divvy1(lya.w, LyaLo * FS, LyaHi * FS))

Count(s, v) == Cardinality({k \in DOMAIN s : s[k] = v})

(* Twice the centre y0 of the cluster: its least plus its greatest value. *)
TwiceCentre(s) ==
    (CHOOSE v \in Range(s) : \A u \in Range(s) : v <= u)
    + (CHOOSE v \in Range(s) : \A u \in Range(s) : u <= v)

(* The cluster is symmetric about y0 > 0 and tight: every sample lies in   *)
(* [y0 - ymax/4, y0 + ymax/4), the first window the loop cuts.             *)
TightSymmetric(s, ymax) ==
    /\ s # <<>>
    /\ TwiceCentre(s) > 0
    /\ \A v \in Range(s) : Count(s, v) = Count(s, TwiceCentre(s) - v)
    /\ \A v \in Range(s) :
          -ymax <= 4 * v - 2 * TwiceCentre(s) /\ 4 * v - 2 * TwiceCentre(s) < ymax

(* C10: the loop of __lya_trace makes at most (samples in the line window  *)
(* + 1) passes, and on a tight symmetric cluster about y0 > 0 the centroid *)
(* it returns differs from y0 by less than 1e-4 of y0.                     *)
C10_NarrowerTerminates ==
    /\ lya.pc \in {"loop", "returned"} => lya.st.iters <= Len(LyaCluster) + 1
    /\ (lya.pc = "loop" /\ lya.st.iters = Len(LyaCluster) + 1)
          => ~LyaContinue(lya.st.ytrace, lya.st.ytrace_old)
    /\ (lya.pc = "returned" /\ TightSymmetric(LyaCluster, lya.ymax))
          => /\ lya.st.ytrace # NaN
             /\ Abs(2 * lya.st.ytrace - TwiceCentre(LyaCluster)) * TolDen
                   < TwiceCentre(LyaCluster)

(* The loop has returned on two different in-window samples about their    *)
(* centre, with a third sample outside the line window.                    *)
C10_Witness ==
    /\ lya.pc = "returned"
    /\ TightSymmetric(LyaCluster, lya.ymax)
    /\ Len(LyaCluster) = 2 /\ LyaCluster[1] # LyaCluster[2]
    /\ Len(lya.y) > Len(LyaCluster)
    /\ lya.st.iters >= 1
    /\ 2 * lya.st.ytrace = TwiceCentre(LyaCluster)

====
